---- MODULE Spec2Model ----
(***************************************************************************)
(* OITVOIP MCP server: the tool catalog and dispatcher of src/src/index.ts *)
(* and the NetSapiens gateway of src/src/netsapiens-client.ts.             *)
(*                                                                         *)
(* A JavaScript value is a record [t, s, n, items]: t is its type tag,     *)
(* s the text of a string (or the identity of an object), n the value of   *)
(* a number (or 1/0 for a boolean), items the elements of an array.        *)
(***************************************************************************)
EXTENDS Integers, Sequences, FiniteSets, TLC

VARIABLES
    calls,          \* slot -> the callTool invocation it is processing
    sent,           \* time -> number of HTTP requests issued at that time
    now,            \* the clock, in milliseconds
    diag,           \* number of entries written to the diagnostic stream
    clientConfig,   \* the axios instance and the NetSapiensConfig behind it
    process,        \* the environment the process started in, and its phase
    listed,         \* the tools of the last listTools reply
    tally           \* invocations started, validated, replied to, failed

vars == <<calls, sent, now, diag, clientConfig, process, listed, tally>>

---------------------------------------------------------------------------
(* Bounds of the model *)

\* invocations started in one behaviour of Spec
MaxCalls == 1
\* invocations started in one behaviour of SeqSpec
MaxSeqCalls == 3
\* invocations started in one behaviour of ConcSpec
MaxConcCalls == 2
\* invocations started in one behaviour of LiveSpec
MaxLiveCalls == 2
\* clock ticks in one behaviour of RateSpec
MaxTicks == 1
\* milliseconds per clock tick
TickMs == 30000

---------------------------------------------------------------------------
(* JavaScript values *)

Undefined == [t |-> "undefined", s |-> "", n |-> 0, items |-> <<>>]
Null == [t |-> "null", s |-> "", n |-> 0, items |-> <<>>]
Str(x) == [t |-> "string", s |-> x, n |-> 0, items |-> <<>>]
Num(k) == [t |-> "number", s |-> "", n |-> k, items |-> <<>>]
Bool(b) == [t |-> "boolean", s |-> "", n |-> IF b THEN 1 ELSE 0, items |-> <<>>]
Obj(id) == [t |-> "object", s |-> id, n |-> 0, items |-> <<>>]
Arr(elems) == [t |-> "array", s |-> "", n |-> 0, items |-> elems]

\* ToBoolean: undefined, null, "", 0 and false are falsy
Truthy(v) ==
    CASE v.t = "undefined" -> FALSE
      [] v.t = "null" -> FALSE
      [] v.t = "string" -> v.s # ""
      [] v.t = "number" -> v.n # 0
      [] v.t = "boolean" -> v.n = 1
      [] OTHER -> TRUE

\* a || b
OrElse(a, b) == IF Truthy(a) THEN a ELSE b

\* a destructuring default (x = d): only undefined takes the default
DefaultTo(a, d) == IF a = Undefined THEN d ELSE a

\* Array.isArray
IsArray(v) == v.t = "array"

\* the text a template literal `${v}` interpolates
TemplateText(v) ==
    CASE v.t = "string" -> v.s
      [] v.t = "number" -> ToString(v.n)
      [] v.t = "boolean" -> IF v.n = 1 THEN "true" ELSE "false"
      [] v.t = "object" -> "[object Object]"
      [] v.t = "array" -> ""
      [] OTHER -> v.t

\* data?.length || 0
LengthOrZero(v) == IF IsArray(v) THEN Len(v.items) ELSE 0

---------------------------------------------------------------------------
(* The tool catalog (ListToolsRequestSchema handler) *)

Desc(nm, props, req) == [name |-> nm, properties |-> props, required |-> req]

\* A descriptor without a "required" key requires nothing: required is <<>>.
ToolCatalog ==
    << Desc("search_users", {"query", "domain", "limit"}, <<"query">>),
       Desc("get_user", {"userId", "domain"}, <<"userId", "domain">>),
       Desc("get_cdr_records", {"startDate", "endDate", "user", "domain", "limit"}, <<>>),
       Desc("get_domains", {}, <<>>),
       Desc("get_domain", {"domain"}, <<"domain">>),
       Desc("get_user_devices", {"userId", "domain"}, <<"userId", "domain">>),
       Desc("get_phone_numbers", {"domain", "limit"}, <<"domain">>),
       Desc("get_phone_number", {"domain", "phoneNumber"}, <<"domain", "phoneNumber">>),
       Desc("get_call_queues", {"domain"}, <<"domain">>),
       Desc("get_call_queue", {"domain", "queueId"}, <<"domain", "queueId">>),
       Desc("get_call_queue_agents", {"domain", "queueId"}, <<"domain", "queueId">>),
       Desc("get_agents", {"domain"}, <<"domain">>),
       Desc("login_agent", {"domain", "queueId", "agentId"}, <<"domain", "queueId", "agentId">>),
       Desc("logout_agent", {"domain", "queueId", "agentId"}, <<"domain", "queueId", "agentId">>),
       Desc("get_auto_attendants", {"domain"}, <<"domain">>),
       Desc("get_user_answer_rules", {"userId", "domain"}, <<"userId", "domain">>),
       Desc("get_user_answer_rule", {"userId", "domain", "timeframe"},
            <<"userId", "domain", "timeframe">>),
       Desc("get_user_greetings", {"userId", "domain"}, <<"userId", "domain">>),
       Desc("get_user_voicemails", {"userId", "domain"}, <<"userId", "domain">>),
       Desc("get_music_on_hold", {"domain"}, <<"domain">>),
       Desc("get_billing", {"domain"}, <<"domain">>),
       Desc("get_agent_statistics", {"domain", "agentId"}, <<"domain">>),
       Desc("test_connection", {}, <<>>) >>

SeqRange(q) == {q[i] : i \in 1..Len(q)}

CatalogNames == {ToolCatalog[i].name : i \in 1..Len(ToolCatalog)}

Descriptor(nm) == CHOOSE d \in SeqRange(ToolCatalog) : d.name = nm

\* the fields the descriptor of nm marks required
Required(nm) == SeqRange(Descriptor(nm).required)

---------------------------------------------------------------------------
(* The dispatcher (CallToolRequestSchema handler) and the 23 handlers *)

\* mutant: the switch has no case for get_billing
DispatchNamesNoBilling == CatalogNames \ {"get_billing"}

\* the case labels of the switch
DispatchNames ==
    { "search_users", "get_user", "get_cdr_records", "get_domains", "get_domain",
      "get_user_devices", "get_phone_numbers", "get_phone_number", "get_call_queues",
      "get_call_queue", "get_call_queue_agents", "get_agents", "login_agent",
      "logout_agent", "get_auto_attendants", "get_user_answer_rules",
      "get_user_answer_rule", "get_user_greetings", "get_user_voicemails",
      "get_music_on_hold", "get_billing", "get_agent_statistics", "test_connection" }

\* the handlers whose first statement destructures args (const {...} = args);
\* handleGetDomains and handleTestConnection never read args
Destructures(nm) == nm \notin {"get_domains", "test_connection"}

\* mutant: the three-field handlers forget to test agentId
HandlerChecksNoAgentId(nm) == Required(nm) \ {"agentId"}

\* the fields a handler tests with if (!a || !b ...) before it calls the gateway
HandlerChecks(nm) ==
    CASE nm = "search_users" -> {"query"}
      [] nm \in {"get_user", "get_user_devices", "get_user_answer_rules",
                 "get_user_greetings", "get_user_voicemails"} -> {"userId", "domain"}
      [] nm \in {"get_domain", "get_phone_numbers", "get_call_queues", "get_agents",
                 "get_auto_attendants", "get_music_on_hold", "get_billing",
                 "get_agent_statistics"} -> {"domain"}
      [] nm = "get_phone_number" -> {"domain", "phoneNumber"}
      [] nm \in {"get_call_queue", "get_call_queue_agents"} -> {"domain", "queueId"}
      [] nm \in {"login_agent", "logout_agent"} -> {"domain", "queueId", "agentId"}
      [] nm = "get_user_answer_rule" -> {"userId", "domain", "timeframe"}
      [] OTHER -> {}

\* the text of the InvalidParams error a handler throws
InvalidParamsText(nm) ==
    CASE nm = "search_users" -> "Query parameter is required"
      [] nm \in {"get_user", "get_user_devices", "get_user_answer_rules",
                 "get_user_greetings", "get_user_voicemails"} ->
            "userId and domain parameters are required"
      [] nm = "get_phone_number" -> "domain and phoneNumber parameters are required"
      [] nm \in {"get_call_queue", "get_call_queue_agents"} ->
            "domain and queueId parameters are required"
      [] nm \in {"login_agent", "logout_agent"} ->
            "domain, queueId, and agentId parameters are required"
      [] nm = "get_user_answer_rule" ->
            "userId, domain, and timeframe parameters are required"
      [] OTHER -> "domain parameter is required"

---------------------------------------------------------------------------
(* The gateway (NetSapiensClient): one request per method *)

Fields ==
    { "query", "domain", "limit", "userId", "startDate", "endDate", "user",
      "phoneNumber", "queueId", "agentId", "timeframe" }

\* mutant: searchUsers sends limit || 20
SearchLimitOrDefault(a) == OrElse(a["limit"], Num(20))

\* limit as handleSearchUsers destructures it and searchUsers declares it
SearchLimit(a) == DefaultTo(a["limit"], Num(20))

\* limit as handleGetCDRRecords destructures it and getCDRRecords sends it
CdrLimit(a) == OrElse(DefaultTo(a["limit"], Num(100)), Num(100))

\* mutant: logout_agent is sent with this.client.get
MethodLogoutGet(nm) == IF nm = "login_agent" THEN "POST" ELSE "GET"

\* the HTTP method each gateway method uses
Method(nm) == IF nm \in {"login_agent", "logout_agent"} THEN "POST" ELSE "GET"

Dom(a) == "/domains/" \o TemplateText(a["domain"])

DomUser(a) == Dom(a) \o "/users/" \o TemplateText(a["userId"])

DomQueue(a) == Dom(a) \o "/callqueues/" \o TemplateText(a["queueId"])

\* mutant: the domain is tested first, so the listing of one user is never used
CdrEndpointDomainFirst(a) ==
    IF Truthy(a["domain"])
    THEN Dom(a) \o "/cdrs"
    ELSE IF Truthy(a["user"]) /\ Truthy(a["domain"])
         THEN Dom(a) \o "/users/" \o TemplateText(a["user"]) \o "/cdrs"
         ELSE "/cdrs"

\* the endpoint getCDRRecords selects
CdrEndpoint(a) ==
    IF Truthy(a["user"]) /\ Truthy(a["domain"])
    THEN Dom(a) \o "/users/" \o TemplateText(a["user"]) \o "/cdrs"
    ELSE IF Truthy(a["domain"]) THEN Dom(a) \o "/cdrs" ELSE "/cdrs"

\* mutant: searchUsers tests domain !== undefined
SearchEndpointIfDefined(a) ==
    IF a["domain"] # Undefined THEN Dom(a) \o "/users" ELSE "/domains/~/users/~"

\* the endpoint searchUsers selects
SearchEndpoint(a) ==
    IF Truthy(a["domain"]) THEN Dom(a) \o "/users" ELSE "/domains/~/users/~"

\* the path each gateway method requests
Endpoint(nm, a) ==
    CASE nm = "search_users" -> SearchEndpoint(a)
      [] nm = "get_user" -> DomUser(a)
      [] nm = "get_cdr_records" -> CdrEndpoint(a)
      [] nm = "get_domains" -> "/domains"
      [] nm = "get_domain" -> Dom(a)
      [] nm = "get_user_devices" -> DomUser(a) \o "/devices"
      [] nm = "get_phone_numbers" -> Dom(a) \o "/phonenumbers"
      [] nm = "get_phone_number" ->
            Dom(a) \o "/phonenumbers/" \o TemplateText(a["phoneNumber"])
      [] nm = "get_call_queues" -> Dom(a) \o "/callqueues"
      [] nm = "get_call_queue" -> DomQueue(a)
      [] nm = "get_call_queue_agents" -> DomQueue(a) \o "/agents"
      [] nm = "get_agents" -> Dom(a) \o "/agents"
      [] nm = "login_agent" ->
            DomQueue(a) \o "/agents/" \o TemplateText(a["agentId"]) \o "/login"
      [] nm = "logout_agent" ->
            DomQueue(a) \o "/agents/" \o TemplateText(a["agentId"]) \o "/logout"
      [] nm = "get_auto_attendants" -> Dom(a) \o "/autoattendants"
      [] nm = "get_user_answer_rules" -> DomUser(a) \o "/answerrules"
      [] nm = "get_user_answer_rule" ->
            DomUser(a) \o "/answerrules/" \o TemplateText(a["timeframe"])
      [] nm = "get_user_greetings" -> DomUser(a) \o "/greetings"
      [] nm = "get_user_voicemails" -> DomUser(a) \o "/voicemail"
      [] nm = "get_music_on_hold" -> Dom(a) \o "/moh"
      [] nm = "get_billing" -> Dom(a) \o "/billing"
      [] nm = "get_agent_statistics" ->
            IF Truthy(a["agentId"])
            THEN Dom(a) \o "/statistics/agent/" \o TemplateText(a["agentId"])
            ELSE Dom(a) \o "/statistics/agent"
      [] OTHER -> "/domains"

NoParams == [user |-> Undefined, limit |-> Undefined,
             start_time |-> Undefined, end_time |-> Undefined]

\* the query parameters each gateway method attaches (undefined: not sent)
Params(nm, a) ==
    CASE nm = "search_users" ->
            [NoParams EXCEPT !.user = a["query"], !.limit = SearchLimit(a)]
      [] nm = "get_cdr_records" ->
            [NoParams EXCEPT !.start_time = a["startDate"], !.end_time = a["endDate"],
                             !.limit = CdrLimit(a)]
      [] nm = "get_phone_numbers" -> [NoParams EXCEPT !.limit = a["limit"]]
      [] nm = "test_connection" -> [NoParams EXCEPT !.limit = Num(1)]
      [] OTHER -> NoParams

\* the gateway methods that wrap a non-array body: Array.isArray(d) ? d : [d]
ListMethods ==
    { "search_users", "get_cdr_records", "get_domains", "get_user_devices",
      "get_phone_numbers", "get_call_queues", "get_call_queue_agents", "get_agents",
      "get_auto_attendants", "get_user_answer_rules", "get_user_greetings",
      "get_user_voicemails", "get_music_on_hold" }

\* the fixed fallback of each catch block: error.message || '...'
FallbackError(nm) ==
    CASE nm = "search_users" -> "Failed to search users"
      [] nm = "get_user" -> "Failed to get user"
      [] nm = "get_cdr_records" -> "Failed to get CDR records"
      [] nm = "get_domains" -> "Failed to get domains"
      [] nm = "get_domain" -> "Failed to get domain"
      [] nm = "get_user_devices" -> "Failed to get user devices"
      [] nm = "get_phone_numbers" -> "Failed to get phone numbers"
      [] nm = "get_phone_number" -> "Failed to get phone number"
      [] nm = "get_call_queues" -> "Failed to get call queues"
      [] nm = "get_call_queue" -> "Failed to get call queue"
      [] nm = "get_call_queue_agents" -> "Failed to get call queue agents"
      [] nm = "get_agents" -> "Failed to get agents"
      [] nm = "login_agent" -> "Failed to login agent"
      [] nm = "logout_agent" -> "Failed to logout agent"
      [] nm = "get_auto_attendants" -> "Failed to get auto attendants"
      [] nm = "get_user_answer_rules" -> "Failed to get answer rules"
      [] nm = "get_user_answer_rule" -> "Failed to get answer rule"
      [] nm = "get_user_greetings" -> "Failed to get user greetings"
      [] nm = "get_user_voicemails" -> "Failed to get user voicemails"
      [] nm = "get_music_on_hold" -> "Failed to get music on hold"
      [] nm = "get_billing" -> "Failed to get billing information"
      [] nm = "get_agent_statistics" -> "Failed to get agent statistics"
      [] OTHER -> "Connection failed"

\* An OperationResult (NetSapiensApiResponse); threw: the method rejected
\* instead of returning it. An absent field is Undefined.
OpResult(ok, d, e, m) ==
    [threw |-> FALSE, success |-> ok, data |-> d, error |-> e, message |-> m]

\* no result yet
NoResult == OpResult(FALSE, Undefined, Undefined, Undefined)

\* the method rejected: no result at all
Thrown == [NoResult EXCEPT !.threw = TRUE]

\* mutant: the list methods return the body without wrapping it
OnResolvedNoWrap(nm, body) ==
    CASE nm = "login_agent" ->
            OpResult(TRUE, body, Undefined, Str("Agent logged in successfully"))
      [] nm = "logout_agent" ->
            OpResult(TRUE, body, Undefined, Str("Agent logged out successfully"))
      [] nm = "test_connection" ->
            OpResult(TRUE, Bool(TRUE), Undefined, Str("Connection successful"))
      [] OTHER -> OpResult(TRUE, body, Undefined, Undefined)

\* mutant: testConnection reports success only when the listing has a row
OnResolvedProbeNeedsRows(nm, body) ==
    CASE nm \in ListMethods ->
            OpResult(TRUE, IF IsArray(body) THEN body ELSE Arr(<<body>>),
                     Undefined, Undefined)
      [] nm = "login_agent" ->
            OpResult(TRUE, body, Undefined, Str("Agent logged in successfully"))
      [] nm = "logout_agent" ->
            OpResult(TRUE, body, Undefined, Str("Agent logged out successfully"))
      [] nm = "test_connection" ->
            IF LengthOrZero(body) > 0
            THEN OpResult(TRUE, Bool(TRUE), Undefined, Str("Connection successful"))
            ELSE OpResult(FALSE, Bool(FALSE), Str("Connection failed"), Undefined)
      [] OTHER -> OpResult(TRUE, body, Undefined, Undefined)

\* the return statement of a try block, given the response body
OnResolved(nm, body) ==
    CASE nm \in ListMethods ->
            OpResult(TRUE, IF IsArray(body) THEN body ELSE Arr(<<body>>),
                     Undefined, Undefined)
      [] nm = "login_agent" ->
            OpResult(TRUE, body, Undefined, Str("Agent logged in successfully"))
      [] nm = "logout_agent" ->
            OpResult(TRUE, body, Undefined, Str("Agent logged out successfully"))
      [] nm = "test_connection" ->
            OpResult(TRUE, Bool(TRUE), Undefined, Str("Connection successful"))
      [] OTHER -> OpResult(TRUE, body, Undefined, Undefined)

\* mutant: the catch blocks return error.message without a fallback
OnRejectedNoFallback(nm, msg) ==
    OpResult(FALSE, IF nm \in ListMethods THEN Arr(<<>>) ELSE Undefined, msg, Undefined)

\* the return statement of a catch block, given error.message
OnRejected(nm, msg) ==
    OpResult(FALSE,
             CASE nm \in ListMethods -> Arr(<<>>)
               [] nm = "test_connection" -> Bool(FALSE)
               [] OTHER -> Undefined,
             OrElse(msg, Str(FallbackError(nm))),
             Undefined)

\* mutant: a rejection without a message is thrown on
GatewayResultRethrow(nm, resp) ==
    IF resp.settled = "resolved"
    THEN OnResolved(nm, resp.body)
    ELSE IF Truthy(resp.message) THEN OnRejected(nm, resp.message) ELSE Thrown

\* mutant: the catch blocks append the HTTP status to the error text
GatewayResultWithStatus(nm, resp) ==
    IF resp.settled = "resolved"
    THEN OnResolved(nm, resp.body)
    ELSE OnRejected(nm, Str(TemplateText(OrElse(resp.message, Str(FallbackError(nm))))
                            \o " (status " \o ToString(resp.status) \o ")"))

\* a gateway method from the settled transport promise to its return value
GatewayResult(nm, resp) ==
    IF resp.settled = "resolved"
    THEN OnResolved(nm, resp.body)
    ELSE OnRejected(nm, resp.message)

---------------------------------------------------------------------------
(* The ToolReply each handler builds *)

\* mutant: the count is result.data?.length || 1
CountOrOne(r) ==
    ToString(IF LengthOrZero(r.data) = 0 THEN 1 ELSE LengthOrZero(r.data))

\* the count a list handler interpolates: result.data?.length || 0
Count(r) == ToString(LengthOrZero(r.data))

\* mutant: handleGetUser names the user by the domain
UserDetailsMessageDomain(a) == "Retrieved user details for " \o TemplateText(a["domain"])

\* the success message of handleGetUser
UserDetailsMessage(a) == "Retrieved user details for " \o TemplateText(a["userId"])

AtDomain(a) == TemplateText(a["userId"]) \o "@" \o TemplateText(a["domain"])

\* the success branch of a handler's message
SuccessMessage(nm, a, r) ==
    CASE nm = "search_users" ->
            "Found " \o Count(r) \o " users matching \"" \o TemplateText(a["query"])
            \o "\""
            \o (IF Truthy(a["domain"])
                THEN " in domain " \o TemplateText(a["domain"]) ELSE "")
      [] nm = "get_user" -> UserDetailsMessage(a)
      [] nm = "get_cdr_records" -> "Retrieved " \o Count(r) \o " CDR records"
      [] nm = "get_domains" -> "Retrieved " \o Count(r) \o " domains"
      [] nm = "get_domain" ->
            "Retrieved domain information for " \o TemplateText(a["domain"])
      [] nm = "get_user_devices" ->
            "Retrieved " \o Count(r) \o " devices for user " \o AtDomain(a)
      [] nm = "get_phone_numbers" ->
            "Retrieved " \o Count(r) \o " phone numbers for domain "
            \o TemplateText(a["domain"])
      [] nm = "get_phone_number" ->
            "Retrieved phone number details for " \o TemplateText(a["phoneNumber"])
      [] nm = "get_call_queues" ->
            "Retrieved " \o Count(r) \o " call queues for domain "
            \o TemplateText(a["domain"])
      [] nm = "get_call_queue" ->
            "Retrieved call queue details for " \o TemplateText(a["queueId"])
      [] nm = "get_call_queue_agents" ->
            "Retrieved " \o Count(r) \o " agents for call queue "
            \o TemplateText(a["queueId"])
      [] nm = "get_agents" ->
            "Retrieved " \o Count(r) \o " agents for domain " \o TemplateText(a["domain"])
      [] nm = "get_auto_attendants" ->
            "Retrieved " \o Count(r) \o " auto attendants for domain "
            \o TemplateText(a["domain"])
      [] nm = "get_user_answer_rules" ->
            "Retrieved " \o Count(r) \o " answer rules for user " \o AtDomain(a)
      [] nm = "get_user_answer_rule" ->
            "Retrieved answer rule for " \o AtDomain(a) \o " timeframe "
            \o TemplateText(a["timeframe"])
      [] nm = "get_user_greetings" ->
            "Retrieved " \o Count(r) \o " greetings for user " \o AtDomain(a)
      [] nm = "get_user_voicemails" ->
            "Retrieved " \o Count(r) \o " voicemails for user " \o AtDomain(a)
      [] nm = "get_music_on_hold" ->
            "Retrieved " \o Count(r) \o " music on hold files for domain "
            \o TemplateText(a["domain"])
      [] nm = "get_billing" ->
            "Retrieved billing information for domain " \o TemplateText(a["domain"])
      [] nm = "get_agent_statistics" ->
            "Retrieved agent statistics for domain " \o TemplateText(a["domain"])
            \o (IF Truthy(a["agentId"])
                THEN " (agent: " \o TemplateText(a["agentId"]) \o ")" ELSE "")
      [] nm = "login_agent" -> "Agent logged in successfully"
      [] nm = "logout_agent" -> "Agent logged out successfully"
      [] OTHER -> "Connection successful"

\* the text before the cause in a handler's failure message
FailurePrefix(nm) ==
    CASE nm = "search_users" -> "Search failed"
      [] nm = "get_user" -> "Failed to get user"
      [] nm = "get_cdr_records" -> "Failed to get CDR records"
      [] nm = "get_domains" -> "Failed to get domains"
      [] nm = "get_domain" -> "Failed to get domain"
      [] nm = "get_user_devices" -> "Failed to get user devices"
      [] nm = "get_phone_numbers" -> "Failed to get phone numbers"
      [] nm = "get_phone_number" -> "Failed to get phone number"
      [] nm = "get_call_queues" -> "Failed to get call queues"
      [] nm = "get_call_queue" -> "Failed to get call queue"
      [] nm = "get_call_queue_agents" -> "Failed to get call queue agents"
      [] nm = "get_agents" -> "Failed to get agents"
      [] nm = "login_agent" -> "Failed to login agent"
      [] nm = "logout_agent" -> "Failed to logout agent"
      [] nm = "get_auto_attendants" -> "Failed to get auto attendants"
      [] nm = "get_user_answer_rules" -> "Failed to get answer rules"
      [] nm = "get_user_answer_rule" -> "Failed to get answer rule"
      [] nm = "get_user_greetings" -> "Failed to get user greetings"
      [] nm = "get_user_voicemails" -> "Failed to get user voicemails"
      [] nm = "get_music_on_hold" -> "Failed to get music on hold"
      [] nm = "get_billing" -> "Failed to get billing information"
      [] nm = "get_agent_statistics" -> "Failed to get agent statistics"
      [] OTHER -> "Connection failed"

\* the handlers whose message is result.message || (success ? '...' : '...')
FixedMessageTools == {"login_agent", "logout_agent", "test_connection"}

\* mutant: a failure message leaves out result.error
ReplyMessageNoCause(nm, a, r) ==
    IF nm \in FixedMessageTools
    THEN OrElse(r.message,
                Str(IF r.success THEN SuccessMessage(nm, a, r) ELSE FailurePrefix(nm)))
    ELSE IF r.success
         THEN Str(SuccessMessage(nm, a, r))
         ELSE Str(FailurePrefix(nm))

\* the message property of the reply object
ReplyMessage(nm, a, r) ==
    IF nm \in FixedMessageTools
    THEN OrElse(r.message,
                Str(IF r.success THEN SuccessMessage(nm, a, r) ELSE FailurePrefix(nm)))
    ELSE IF r.success
         THEN Str(SuccessMessage(nm, a, r))
         ELSE Str(FailurePrefix(nm) \o ": " \o TemplateText(r.error))

\* the properties each handler's object literal writes
ReplyKeys(nm) ==
    IF nm = "test_connection"
    THEN {"success", "message", "error"}
    ELSE {"success", "message", "data", "error"}

\* mutant: a property whose value is undefined is written (as null)
JsonStringifyKeepsUndefined(keys, ok, m, d, e) ==
    LET written == [message |-> m, data |-> d, error |-> e]
        At(k) == IF k \in keys THEN written[k] ELSE Undefined
    IN  [keys |-> keys, success |-> ok,
         message |-> At("message"), data |-> At("data"), error |-> At("error")]

\* JSON.stringify of the reply object, read back: a property that is not
\* written, or whose value is undefined, is absent from the text
JsonStringify(keys, ok, m, d, e) ==
    LET written == [message |-> m, data |-> d, error |-> e]
        present == {k \in keys \ {"success"} : written[k] # Undefined} \cup {"success"}
        At(k) == IF k \in present THEN written[k] ELSE Undefined
    IN  [keys |-> present, success |-> ok,
         message |-> At("message"), data |-> At("data"), error |-> At("error")]

\* the value a handler returns: one text block
BuildReply(nm, a, r) ==
    << [type |-> "text",
        body |-> JsonStringify(ReplyKeys(nm), r.success, ReplyMessage(nm, a, r),
                               r.data, r.error)] >>

---------------------------------------------------------------------------
(* Startup: getConfig and the NetSapiensClient constructor *)

DefaultApiUrl == "https://api.ucaasnetwork.com"

DefaultTimeout == 30000

RateLimitRequests == 100

RateLimitPerMilliseconds == 60000

\* process environments the server is started in
Envs ==
    { [NETSAPIENS_API_TOKEN |-> Str("token-A"), NETSAPIENS_API_URL |-> Undefined,
       NETSAPIENS_TIMEOUT |-> Undefined],
      [NETSAPIENS_API_TOKEN |-> Str("token-B"),
       NETSAPIENS_API_URL |-> Str("https://pbx.example.com"),
       NETSAPIENS_TIMEOUT |-> Str("5000")],
      [NETSAPIENS_API_TOKEN |-> Undefined, NETSAPIENS_API_URL |-> Undefined,
       NETSAPIENS_TIMEOUT |-> Undefined],
      [NETSAPIENS_API_TOKEN |-> Str(""),
       NETSAPIENS_API_URL |-> Str("https://pbx.example.com"),
       NETSAPIENS_TIMEOUT |-> Str("5000")] }

\* mutant: only an absent token is refused, an empty one is accepted
ConfigErrorOnlyAbsent(env) == env.NETSAPIENS_API_TOKEN = Undefined

\* getConfig() throws: the token is not set
ConfigError(env) == ~Truthy(env.NETSAPIENS_API_TOKEN)

\* getConfig().netsapiens
GetConfig(env) ==
    [apiUrl |-> OrElse(env.NETSAPIENS_API_URL, Str(DefaultApiUrl)).s,
     apiToken |-> env.NETSAPIENS_API_TOKEN.s,
     timeout |-> DefaultTimeout,
     rateLimit |-> [requests |-> RateLimitRequests,
                    perMilliseconds |-> RateLimitPerMilliseconds]]

\* new NetSapiensClient(config): axios.create({baseURL, timeout, headers})
NewClient(cfg) ==
    [config |-> cfg,
     baseURL |-> cfg.apiUrl \o "/ns-api/v2",
     timeout |-> IF cfg.timeout # 0 THEN cfg.timeout ELSE DefaultTimeout,
     headers |-> [Authorization |-> "Bearer " \o cfg.apiToken,
                  ContentType |-> "application/json",
                  Accept |-> "application/json",
                  UserAgent |-> "OITVOIP-MCP-Server/1.0.0"]]

\* no gateway was constructed
NoClient ==
    [config |-> [apiUrl |-> "", apiToken |-> "", timeout |-> 0,
                 rateLimit |-> [requests |-> 0, perMilliseconds |-> 0]],
     baseURL |-> "", timeout |-> 0,
     headers |-> [Authorization |-> "", ContentType |-> "", Accept |-> "",
                  UserAgent |-> ""]]

\* the load of the module: getConfig() at the top level, then the server
\* and its gateway are constructed; an exception of getConfig() ends the
\* process before either
Boot(env) ==
    IF ConfigError(env)
    THEN [phase |-> "exited", client |-> NoClient]
    ELSE [phase |-> "constructed", client |-> NewClient(GetConfig(env))]

---------------------------------------------------------------------------
(* Inputs: tool names, argument maps, transport outcomes *)

\* the invocations the server may have in flight at once
Slots == {1, 2}

\* the slot a caller uses who awaits each reply before its next invocation
Serial == {1}

UnknownNames == {"delete_user", "SEARCH_USERS", ""}

Names == DispatchNames \cup UnknownNames

\* a truthy sample value of each string parameter
Sample(f) ==
    CASE f = "query" -> "john"
      [] f = "domain" -> "example.com"
      [] f = "userId" -> "alice"
      [] f = "user" -> "bob"
      [] f = "startDate" -> "2024-01-01"
      [] f = "endDate" -> "2024-01-31"
      [] f = "phoneNumber" -> "15551234567"
      [] f = "queueId" -> "sales"
      [] f = "agentId" -> "1001"
      [] OTHER -> "default"

\* the values a caller may give a parameter: absent, the falsy values, a sample
FieldValues(f) ==
    CASE f = "limit" -> {Undefined, Null, Num(0), Num(5)}
      [] f \in {"startDate", "endDate"} -> {Undefined, Str(Sample(f))}
      [] OTHER -> {Undefined, Null, Str(""), Num(0), Str(Sample(f))}

\* an optional string parameter: absent, empty, or a sample
OptionalValues(f) == FieldValues(f) \ {Null, Num(0)}

\* a caller sets only the parameters the tool's schema declares; with an
\* unknown tool name it sets domain
PropValues(nm, f) ==
    IF nm \in CatalogNames
    THEN IF f \in Descriptor(nm).properties
         THEN IF f \in Required(nm) \/ f = "limit"
              THEN FieldValues(f) ELSE OptionalValues(f)
         ELSE {Undefined}
    ELSE IF f = "domain" THEN FieldValues(f) ELSE {Undefined}

NoFields == [f \in Fields |-> Undefined]

\* request.params.arguments: absent, or a map
AbsentArgs == [present |-> FALSE, f |-> NoFields]

ArgMap(m) == [present |-> TRUE, f |-> m]

\* the settled transport promise: a 2xx response, or a rejection with an Error
Resolved(st, txt, b) ==
    [settled |-> "resolved", status |-> st, statusText |-> txt, body |-> b,
     message |-> Undefined]

Rejected(st, txt, b, m) ==
    [settled |-> "rejected", status |-> st, statusText |-> txt, body |-> b,
     message |-> m]

NoResp == [Resolved(0, "", Undefined) EXCEPT !.settled = "pending"]

Outcomes(timeout) ==
    { Resolved(200, "OK", Arr(<<>>)),
      Resolved(200, "OK", Arr(<<Obj("o1"), Obj("o2")>>)),
      Resolved(200, "OK", Obj("o1")),
      Resolved(204, "No Content", Str("")),
      Rejected(404, "Not Found", Obj("e404"), Str("Request failed with status code 404")),
      Rejected(0, "", Undefined, Str("timeout of " \o ToString(timeout) \o "ms exceeded")),
      Rejected(0, "", Undefined, Str("")),
      Rejected(0, "", Undefined, Undefined) }

---------------------------------------------------------------------------
(* callTool: dispatch, validation, the gateway call, the reply *)

\* the outcome of callTool: a ToolReply (content) or a protocol error (code)
NoOutcome == [kind |-> "none", code |-> "", text |-> "", content |-> <<>>]

ProtocolError(c, txt) == [NoOutcome EXCEPT !.kind = "error", !.code = c, !.text = txt]

ToolReply(blocks) == [NoOutcome EXCEPT !.kind = "reply", !.content = blocks]

Proceed == [NoOutcome EXCEPT !.kind = "proceed"]

\* mutant: the catch wraps every error, McpError included
CatchAllInternal(nm, thrown) ==
    ProtocolError("InternalError", "Error executing tool " \o nm \o ": " \o thrown.text)

\* mutant: the catch rethrows whatever it caught
CatchAllRethrow(nm, thrown) == thrown

\* the catch of the dispatcher: an McpError is rethrown as it is, anything
\* else becomes an InternalError naming the tool
CatchAll(nm, thrown) ==
    IF thrown.kind = "error"
    THEN thrown
    ELSE ProtocolError("InternalError",
                       "Error executing tool " \o nm \o ": " \o thrown.text)

TypeErrorThrown ==
    [NoOutcome EXCEPT !.kind = "thrown",
                      !.text = "TypeError: Cannot destructure 'args' as it is undefined."]

\* the start of a handler, up to its call of the gateway: destructure args,
\* test the required fields
HandlerEntry(nm, args) ==
    IF Destructures(nm) /\ ~args.present
    THEN TypeErrorThrown
    ELSE IF \E f \in HandlerChecks(nm) : ~Truthy(args.f[f])
         THEN ProtocolError("InvalidParams", InvalidParamsText(nm))
         ELSE Proceed

\* the switch of the dispatcher inside its try/catch
Dispatch(nm, args) ==
    IF nm \in DispatchNames
    THEN LET h == HandlerEntry(nm, args)
         IN  IF h.kind = "proceed" THEN h ELSE CatchAll(nm, h)
    ELSE CatchAll(nm, ProtocolError("MethodNotFound", "Unknown tool: " \o nm))

\* the request a gateway method hands to the axios instance
NoReq ==
    [method |-> "", url |-> "", params |-> NoParams, data |-> Undefined,
     baseURL |-> "", timeout |-> 0,
     headers |-> [Authorization |-> "", ContentType |-> "", Accept |-> "",
                  UserAgent |-> ""]]

GatewayRequest(nm, a, client) ==
    [method |-> Method(nm), url |-> Endpoint(nm, a), params |-> Params(nm, a),
     data |-> Undefined, baseURL |-> client.baseURL, timeout |-> client.timeout,
     headers |-> client.headers]

\* mutant: the POST methods send their request twice
RequestsPerCallRetry(nm) == IF Method(nm) = "POST" THEN 2 ELSE 1

\* the number of requests one gateway method call issues
RequestsPerCall(nm) == 1

\* mutant: the interceptor logs error.config, headers included, as the url
DiagEntryLogsConfig(resp, req) ==
    [status |-> resp.status, statusText |-> resp.statusText, data |-> resp.body,
     url |-> req.url \o " " \o req.headers.Authorization]

\* the entry the response interceptor writes for a rejected request
DiagEntry(resp, req) ==
    [status |-> resp.status, statusText |-> resp.statusText, data |-> resp.body,
     url |-> req.url]

\* the rest of a handler, after the gateway method returned or threw
HandlerReturn(nm, a, r) ==
    IF r.threw
    THEN CatchAll(nm, [NoOutcome EXCEPT !.kind = "thrown", !.text = "Error"])
    ELSE ToolReply(BuildReply(nm, a, r))

\* A slot: pc is where its invocation stands; http counts the requests the
\* invocation issued; order is its rank among the invocations started.
Idle ==
    [pc |-> "idle", name |-> "", args |-> AbsentArgs, req |-> NoReq, resp |-> NoResp,
     result |-> NoResult, logged |-> <<>>, outcome |-> NoOutcome, http |-> 0,
     order |-> 0]

TimePoints == {k * TickMs : k \in 0..MaxTicks}

RECURSIVE SumOver(_, _)
SumOver(f, S) ==
    IF S = {} THEN 0
    ELSE LET x == CHOOSE y \in S : TRUE IN f[x] + SumOver(f, S \ {x})

\* HTTP requests issued so far
HttpCount == SumOver(sent, DOMAIN sent)

\* what the descriptor of the catalog asks of an invocation
Validated(nm, args) ==
    /\ nm \in CatalogNames
    /\ args.present \/ ~Destructures(nm)
    /\ \A f \in Required(nm) : Truthy(args.f[f])

Init ==
    /\ calls = [s \in Slots |-> Idle]
    /\ sent = [t \in TimePoints |-> 0]
    /\ now = 0
    /\ diag = 0
    /\ \E env \in Envs :
          /\ clientConfig = Boot(env).client
          /\ process = [env |-> env, phase |-> Boot(env).phase]
    /\ listed = <<>>
    /\ tally = [started |-> 0, validated |-> 0, replies |-> 0, errors |-> 0]

\* mutant: the handler returns a shared array and drops its last element
ListToolsPop ==
    /\ process.phase = "connected"
    /\ listed' = IF listed = <<>> THEN ToolCatalog
                  ELSE SubSeq(listed, 1, Len(listed) - 1)
    /\ UNCHANGED <<calls, sent, now, diag, clientConfig, process, tally>>

\* run(): the server connects to its stdio transport
Run ==
    /\ process.phase = "constructed"
    /\ process' = [process EXCEPT !.phase = "connected"]
    /\ UNCHANGED <<calls, sent, now, diag, clientConfig, listed, tally>>

\* listTools
ListTools ==
    /\ process.phase = "connected"
    /\ listed' = ToolCatalog
    /\ UNCHANGED <<calls, sent, now, diag, clientConfig, process, tally>>

\* callTool(nm, args) up to the await of the HTTP request, or to the
\* protocol error that ends it
StartCall(s, nm, args) ==
    /\ process.phase = "connected"
    /\ calls[s].pc = "idle"
    /\ LET d == Dispatch(nm, args)
           rq == GatewayRequest(nm, args.f, clientConfig)
           v == IF Validated(nm, args) THEN 1 ELSE 0
       IN  IF d.kind = "proceed"
           THEN /\ calls' = [calls EXCEPT ![s] =
                       [Idle EXCEPT !.pc = "awaiting", !.name = nm, !.args = args,
                                    !.req = rq, !.http = RequestsPerCall(nm),
                                    !.order = tally.started + 1]]
                /\ sent' = [sent EXCEPT ![now] = @ + RequestsPerCall(nm)]
                /\ tally' = [tally EXCEPT !.started = @ + 1, !.validated = @ + v]
           ELSE /\ calls' = [calls EXCEPT ![s] =
                       [Idle EXCEPT !.pc = "done", !.name = nm, !.args = args,
                                    !.outcome = d, !.order = tally.started + 1]]
                /\ sent' = sent
                /\ tally' = [tally EXCEPT !.started = @ + 1, !.validated = @ + v,
                                          !.errors = @ + 1]
    /\ UNCHANGED <<now, diag, clientConfig, process, listed>>

\* mutant: the interceptor logs only an error that carries a response
SettleLogsResponsesOnly(s, resp) ==
    /\ calls[s].pc = "awaiting"
    /\ LET c == calls[s]
           lg == IF resp.settled = "rejected" /\ resp.status # 0
                 THEN <<DiagEntry(resp, c.req)>> ELSE <<>>
       IN  /\ calls' = [calls EXCEPT ![s] =
                  [c EXCEPT !.pc = "settled", !.resp = resp, !.logged = lg]]
           /\ diag' = diag + Len(lg)
    /\ UNCHANGED <<sent, now, clientConfig, process, listed, tally>>

\* the transport settles the request and the response interceptor runs: it
\* hands a response on, it logs a rejection and rejects again with its error
Settle(s, resp) ==
    /\ calls[s].pc = "awaiting"
    /\ LET c == calls[s]
           lg == IF resp.settled = "rejected" THEN <<DiagEntry(resp, c.req)>> ELSE <<>>
       IN  /\ calls' = [calls EXCEPT ![s] =
                  [c EXCEPT !.pc = "settled", !.resp = resp, !.logged = lg]]
           /\ diag' = diag + Len(lg)
    /\ UNCHANGED <<sent, now, clientConfig, process, listed, tally>>

\* mutant: the handlers keep the arguments of the invocation in a field of
\* the server, which the latest invocation started overwrites
ReturnSharedArgs(s) ==
    /\ calls[s].pc = "settled"
    /\ LET c == calls[s]
           latest == CHOOSE t \in Slots : \A u \in Slots : calls[u].order <= calls[t].order
           r == GatewayResult(c.name, c.resp)
           o == HandlerReturn(c.name, calls[latest].args.f, r)
       IN  /\ calls' = [calls EXCEPT ![s] =
                  [c EXCEPT !.pc = "done", !.result = r, !.outcome = o]]
           /\ tally' = IF o.kind = "reply"
                       THEN [tally EXCEPT !.replies = @ + 1]
                       ELSE [tally EXCEPT !.errors = @ + 1]
    /\ UNCHANGED <<sent, now, diag, clientConfig, process, listed>>

\* mutant: the catch of a gateway method sends a request that got no response
\* once more
ReturnRetriesOnce(s) ==
    /\ calls[s].pc = "settled"
    /\ LET c == calls[s]
           r == GatewayResult(c.name, c.resp)
           o == HandlerReturn(c.name, c.args.f, r)
       IN  IF c.resp.settled = "rejected" /\ c.resp.status = 0 /\ c.http < 2
           THEN /\ calls' = [calls EXCEPT ![s] =
                       [c EXCEPT !.pc = "awaiting", !.http = @ + 1, !.resp = NoResp]]
                /\ tally' = tally
           ELSE /\ calls' = [calls EXCEPT ![s] =
                       [c EXCEPT !.pc = "done", !.result = r, !.outcome = o]]
                /\ tally' = IF o.kind = "reply"
                            THEN [tally EXCEPT !.replies = @ + 1]
                            ELSE [tally EXCEPT !.errors = @ + 1]
    /\ UNCHANGED <<sent, now, diag, clientConfig, process, listed>>

\* the await of the gateway method ends: its try or its catch returns the
\* OperationResult, and the handler returns its reply
Return(s) ==
    /\ calls[s].pc = "settled"
    /\ LET c == calls[s]
           r == GatewayResult(c.name, c.resp)
           o == HandlerReturn(c.name, c.args.f, r)
       IN  /\ calls' = [calls EXCEPT ![s] =
                  [c EXCEPT !.pc = "done", !.result = r, !.outcome = o]]
           /\ tally' = IF o.kind = "reply"
                       THEN [tally EXCEPT !.replies = @ + 1]
                       ELSE [tally EXCEPT !.errors = @ + 1]
    /\ UNCHANGED <<sent, now, diag, clientConfig, process, listed>>

\* the protocol layer sends the outcome to the caller
Deliver(s) ==
    /\ calls[s].pc = "done"
    /\ calls' = [calls EXCEPT ![s] = Idle]
    /\ UNCHANGED <<sent, now, diag, clientConfig, process, listed, tally>>

\* time passes
Tick ==
    /\ now < MaxTicks * TickMs
    /\ now' = now + TickMs
    /\ UNCHANGED <<calls, sent, diag, clientConfig, process, listed, tally>>

\* a caller invokes any tool name with any argument map, or with none
CallAny(s) ==
    /\ tally.started < MaxCalls
    /\ \E nm \in Names :
          \/ StartCall(s, nm, AbsentArgs)
          \/ \E query \in PropValues(nm, "query"), domain \in PropValues(nm, "domain"),
                limit \in PropValues(nm, "limit"), userId \in PropValues(nm, "userId"),
                startDate \in PropValues(nm, "startDate"),
                endDate \in PropValues(nm, "endDate"), user \in PropValues(nm, "user"),
                phoneNumber \in PropValues(nm, "phoneNumber"),
                queueId \in PropValues(nm, "queueId"),
                agentId \in PropValues(nm, "agentId"),
                timeframe \in PropValues(nm, "timeframe") :
                StartCall(s, nm,
                    ArgMap([query |-> query, domain |-> domain, limit |-> limit,
                            userId |-> userId, startDate |-> startDate,
                            endDate |-> endDate, user |-> user,
                            phoneNumber |-> phoneNumber, queueId |-> queueId,
                            agentId |-> agentId, timeframe |-> timeframe]))

SettleAny(s) == \E resp \in Outcomes(clientConfig.timeout) : Settle(s, resp)

Next ==
    \/ Run
    \/ ListTools
    \/ \E s \in Serial : CallAny(s)
    \/ \E s \in Serial : SettleAny(s)
    \/ \E s \in Serial : Return(s)
    \/ \E s \in Serial : Deliver(s)

Spec == Init /\ [][Next]_vars

---------------------------------------------------------------------------
(* Sequences of invocations: every tool, a few argument maps, more calls *)

\* every declared parameter set to its sample
FullArgs(nm) ==
    ArgMap([f \in Fields |->
              IF nm \in CatalogNames /\ f \in Descriptor(nm).properties
              THEN IF f = "limit" THEN Num(5) ELSE Str(Sample(f))
              ELSE Undefined])

SeqCall(s) ==
    /\ tally.started < MaxSeqCalls
    /\ \E nm \in Names :
          \E args \in {AbsentArgs, ArgMap(NoFields), FullArgs(nm)} : StartCall(s, nm, args)

SeqSettle(s) ==
    \E resp \in { Resolved(200, "OK", Arr(<<Obj("o1"), Obj("o2")>>)),
                   Rejected(404, "Not Found", Obj("e404"),
                            Str("Request failed with status code 404")) } :
        Settle(s, resp)

SeqNext ==
    \/ Run
    \/ ListTools
    \/ \E s \in Serial : SeqCall(s)
    \/ \E s \in Serial : SeqSettle(s)
    \/ \E s \in Serial : Return(s)
    \/ \E s \in Serial : Deliver(s)

SeqSpec == Init /\ [][SeqNext]_vars

---------------------------------------------------------------------------
(* Concurrent invocations: a caller starts a second one before the first ended *)

\* get_user called for another user
OtherUser ==
    ArgMap([FullArgs("get_user").f EXCEPT !["userId"] = Str("carol")])

ConcInputs ==
    { <<"get_user", FullArgs("get_user")>>,
      <<"get_user", OtherUser>>,
      <<"get_user", ArgMap(NoFields)>>,
      <<"get_user_devices", FullArgs("get_user_devices")>>,
      <<"login_agent", FullArgs("login_agent")>>,
      <<"delete_user", ArgMap(NoFields)>> }

\* what the transport may answer: two responses, and rejections that share
\* their message and differ in status and body
ConcOutcomes ==
    { Resolved(200, "OK", Obj("o1")),
      Resolved(200, "OK", Arr(<<Obj("o1"), Obj("o2")>>)),
      Rejected(404, "Not Found", Obj("e404"), Str("Request failed with status code 404")),
      Rejected(404, "Not Found", Str("<html>not found</html>"),
               Str("Request failed with status code 404")),
      Rejected(503, "Service Unavailable", Obj("e503"), Str("")),
      Rejected(0, "", Undefined, Str("")) }

ConcCall(s) ==
    /\ tally.started < MaxConcCalls
    /\ \E in \in ConcInputs : StartCall(s, in[1], in[2])

ConcSettle(s) == \E resp \in ConcOutcomes : Settle(s, resp)

ConcNext ==
    \/ Run
    \/ \E s \in Slots : ConcCall(s)
    \/ \E s \in Slots : ConcSettle(s)
    \/ \E s \in Slots : Return(s)
    \/ \E s \in Slots : Deliver(s)

ConcSpec == Init /\ [][ConcNext]_vars

---------------------------------------------------------------------------
(* Invocations whose request the transport settles in the end *)

\* the request expired at the timeout of the axios instance
TimedOut(timeout) ==
    Rejected(0, "", Undefined, Str("timeout of " \o ToString(timeout) \o "ms exceeded"))

LiveCall(s) ==
    /\ tally.started < MaxLiveCalls
    /\ \E in \in ConcInputs : StartCall(s, in[1], in[2])

LiveSettle(s) ==
    \E resp \in {Resolved(200, "OK", Obj("o1")), TimedOut(clientConfig.timeout)} :
        Settle(s, resp)

LiveNext ==
    \/ Run
    \/ \E s \in Slots : LiveCall(s)
    \/ \E s \in Slots : LiveSettle(s)
    \/ \E s \in Slots : Return(s)
    \/ \E s \in Slots : Deliver(s)

\* the transport settles every request, at the latest at the timeout, and the
\* event loop runs every continuation that is ready
LiveSpec ==
    /\ Init /\ [][LiveNext]_vars
    /\ \A s \in Slots : WF_vars(LiveSettle(s)) /\ WF_vars(Return(s))

---------------------------------------------------------------------------
(* Bursts of invocations against the clock *)

RateCall(s) ==
    /\ HttpCount <= RateLimitRequests
    /\ StartCall(s, "test_connection", AbsentArgs)

RateSettle(s) == Settle(s, Resolved(200, "OK", Arr(<<>>)))

RateNext ==
    \/ Run
    \/ Tick
    \/ \E s \in Serial : RateCall(s)
    \/ \E s \in Serial : RateSettle(s)
    \/ \E s \in Serial : Return(s)
    \/ \E s \in Serial : Deliver(s)

RateSpec == Init /\ [][RateNext]_vars

---------------------------------------------------------------------------
(* The claims *)

\* the operations the specification describes as returning a list
ListReturningTools ==
    { "search_users", "get_cdr_records", "get_domains", "get_user_devices",
      "get_phone_numbers", "get_call_queues", "get_call_queue_agents", "get_agents",
      "get_auto_attendants", "get_user_answer_rules", "get_user_greetings",
      "get_user_voicemails", "get_music_on_hold" }

\* the operations that hand back one entity: every other one but the probe
SingleEntityTools == (CatalogNames \ ListReturningTools) \ {"test_connection"}

\* the Required column of the operation table of the specification
SpecRequired(nm) ==
    CASE nm = "search_users" -> {"query"}
      [] nm = "get_user" -> {"userId", "domain"}
      [] nm = "get_cdr_records" -> {}
      [] nm = "get_domains" -> {}
      [] nm = "get_domain" -> {"domain"}
      [] nm = "get_user_devices" -> {"userId", "domain"}
      [] nm = "get_phone_numbers" -> {"domain"}
      [] nm = "get_phone_number" -> {"domain", "phoneNumber"}
      [] nm = "get_call_queues" -> {"domain"}
      [] nm = "get_call_queue" -> {"domain", "queueId"}
      [] nm = "get_call_queue_agents" -> {"domain", "queueId"}
      [] nm = "get_agents" -> {"domain"}
      [] nm = "login_agent" -> {"domain", "queueId", "agentId"}
      [] nm = "logout_agent" -> {"domain", "queueId", "agentId"}
      [] nm = "get_auto_attendants" -> {"domain"}
      [] nm = "get_user_answer_rules" -> {"userId", "domain"}
      [] nm = "get_user_answer_rule" -> {"userId", "domain", "timeframe"}
      [] nm = "get_user_greetings" -> {"userId", "domain"}
      [] nm = "get_user_voicemails" -> {"userId", "domain"}
      [] nm = "get_music_on_hold" -> {"domain"}
      [] nm = "get_billing" -> {"domain"}
      [] nm = "get_agent_statistics" -> {"domain"}
      [] nm = "test_connection" -> {}
      [] OTHER -> {"?"}

\* the invocation a slot holds was started and is not yet delivered
Active(c) == c.pc \in {"awaiting", "settled", "done"}

\* some required field of the descriptor is absent or falsy in the argument map
MissingRequired(c) == \E f \in Required(c.name) : ~Truthy(c.args.f[f])

\* the JSON body of the reply of a finished invocation
Body(c) == c.outcome.content[1].body

Failed(c, code) == c.pc = "done" /\ c.outcome.kind = "error" /\ c.outcome.code = code

Replied(c) == c.pc = "done" /\ c.outcome.kind = "reply"

\* C1: for each of the 20 tools that declare required fields and every argument
\* map in which a required field is absent or falsy, callTool ends in an
\* InvalidParams protocol error and the invocation issues no HTTP request.
C1_MissingRequiredIsInvalidParams ==
    /\ Cardinality({nm \in CatalogNames : Required(nm) # {}}) = 20
    /\ \A s \in Slots :
          LET c == calls[s]
          IN  (Active(c) /\ c.name \in CatalogNames /\ c.args.present
                 /\ MissingRequired(c))
              => (Failed(c, "InvalidParams") /\ c.http = 0 /\ c.req = NoReq)

C1_Witness ==
    \E s \in Slots :
        LET c == calls[s]
        IN  /\ c.name = "login_agent" /\ c.args.present
            /\ Truthy(c.args.f["domain"]) /\ Truthy(c.args.f["queueId"])
            /\ c.args.f["agentId"] = Num(0)
            /\ Failed(c, "InvalidParams") /\ c.http = 0 /\ HttpCount = 0

\* C2: when the HTTP call of a validated invocation fails, callTool raises no
\* protocol error: it returns a ToolReply with success false, a non-empty error
\* string and the empty data of its type (an empty list for a list operation,
\* no data for the others).
C2_FailureIsAReply ==
    \A s \in Slots :
        LET c == calls[s]
        IN  (c.pc = "done" /\ c.resp.settled = "rejected")
            => /\ c.outcome.kind = "reply"
               /\ Len(c.outcome.content) = 1
               /\ Body(c).success = FALSE
               /\ Body(c).error.t = "string" /\ Body(c).error.s # ""
               /\ "error" \in Body(c).keys
               /\ IF c.name \in ListReturningTools
                  THEN "data" \in Body(c).keys /\ Body(c).data = Arr(<<>>)
                  ELSE "data" \notin Body(c).keys /\ Body(c).data = Undefined

C2_Witness ==
    \E s \in Slots :
        LET c == calls[s]
        IN  /\ c.name = "get_user_devices" /\ c.resp.settled = "rejected"
            /\ c.resp.status = 404 /\ Replied(c)
            /\ Body(c).success = FALSE /\ Body(c).data = Arr(<<>>)
            /\ Body(c).error = Str("Request failed with status code 404")

\* C3: no gateway method throws or rejects, whatever the transport does: a
\* resolved request yields success true, a rejected one yields success false
\* with the error's message, or the operation's fallback string when the error
\* has no message, and the fallback data.
C3_GatewayNeverThrows ==
    \A s \in Slots :
        LET c == calls[s]
        IN  (c.pc = "done" /\ c.resp.settled # "pending")
            => /\ c.result.threw = FALSE
               /\ c.result.success = (c.resp.settled = "resolved")
               /\ c.resp.settled = "rejected" =>
                     /\ Truthy(c.result.error)
                     /\ c.result.error =
                           (IF c.resp.message.t = "string" /\ c.resp.message.s # ""
                            THEN c.resp.message ELSE Str(FallbackError(c.name)))
                     /\ c.result.data \in {Arr(<<>>), Undefined, Bool(FALSE)}

C3_Witness ==
    \E s \in Slots :
        LET c == calls[s]
        IN  /\ c.pc = "done" /\ c.name = "test_connection"
            /\ c.resp.settled = "rejected" /\ c.resp.message = Undefined
            /\ c.result.threw = FALSE /\ c.result.success = FALSE
            /\ c.result.error = Str("Connection failed")

\* C4: callTool with a name outside the 23 catalog names fails with a
\* MethodNotFound protocol error, whatever the arguments (an absent map
\* included), and issues no HTTP request.
C4_UnknownToolIsMethodNotFound ==
    \A s \in Slots :
        LET c == calls[s]
        IN  (Active(c) /\ c.name \notin CatalogNames)
            => /\ Failed(c, "MethodNotFound")
               /\ c.outcome.code \notin {"InvalidParams", "InternalError"}
               /\ c.http = 0 /\ c.req = NoReq

C4_Witness ==
    \E s \in Slots :
        LET c == calls[s]
        IN  /\ c.name = "delete_user" /\ ~c.args.present
            /\ Failed(c, "MethodNotFound") /\ HttpCount = 0

\* C5: listTools returns exactly 23 descriptors with pairwise distinct names;
\* the names are the ones the dispatch accepts; each descriptor's required list
\* is the Required column of the operation table and is what the handler tests
\* before it calls the gateway.
C5_CatalogMatchesDispatch ==
    /\ listed # <<>> =>
          /\ Len(listed) = 23
          /\ \A i, j \in 1..Len(listed) : listed[i].name = listed[j].name => i = j
          /\ {listed[i].name : i \in 1..Len(listed)} = DispatchNames
          /\ \A i \in 1..Len(listed) :
                /\ SeqRange(listed[i].required) = SpecRequired(listed[i].name)
                /\ SeqRange(listed[i].required) = HandlerChecks(listed[i].name)
    /\ \A s \in Slots :
          LET c == calls[s]
          IN  /\ Active(c) => (Failed(c, "MethodNotFound") <=> c.name \notin CatalogNames)
              /\ (Active(c) /\ c.name \in CatalogNames /\ c.args.present)
                 => (Failed(c, "InvalidParams") <=> MissingRequired(c))

C5_Witness ==
    /\ listed = ToolCatalog
    /\ \E s \in Slots :
          LET c == calls[s]
          IN  /\ c.name = "get_billing" /\ c.args.present /\ c.pc = "awaiting"
              /\ ~MissingRequired(c)

\* C6: after any sequence of listTools and callTool invocations, successful or
\* failing, listTools returns the same descriptors in the same order and the
\* gateway configuration (base URL, token, timeout, headers) is unchanged.
C6_NoInvocationMutatesState ==
    [][ /\ clientConfig' = clientConfig
        /\ listed # <<>> => listed' = listed ]_vars

C6_Witness ==
    /\ listed = ToolCatalog
    /\ tally.started >= 2 /\ tally.replies >= 1 /\ tally.errors >= 1
    /\ diag >= 1
    /\ clientConfig.headers.Authorization = "Bearer token-B"

\* C7: for a list operation a 2xx body that is a list is the data, unchanged,
\* and a 2xx body that is not a list is wrapped in a one-element list; the
\* single-entity operations return the body unchanged.
C7_ListBodiesAreWrapped ==
    \A s \in Slots :
        LET c == calls[s]
        IN  (c.pc = "done" /\ c.resp.settled = "resolved")
            => /\ c.name \in ListReturningTools =>
                     /\ c.result.data =
                           (IF IsArray(c.resp.body) THEN c.resp.body
                            ELSE Arr(<<c.resp.body>>))
                     /\ Replied(c) /\ Body(c).data = c.result.data
               /\ c.name \in SingleEntityTools =>
                     /\ c.result.data = c.resp.body
                     /\ Replied(c) /\ Body(c).data = c.resp.body

C7_Witness ==
    \E s \in Slots :
        LET c == calls[s]
        IN  /\ c.pc = "done" /\ c.name = "get_domains"
            /\ c.resp.settled = "resolved" /\ c.resp.body = Obj("o1")
            /\ Body(c).data = Arr(<<Obj("o1")>>)

\* C8: for every one of the 23 tools, test_connection included, a returned
\* ToolReply has exactly one text block whose JSON body is made of success,
\* message, data and error, with success, data and error copied from the
\* gateway's OperationResult.
C8_ReplyCopiesResult ==
    \A s \in Slots :
        LET c == calls[s]
        IN  Replied(c)
            => /\ Len(c.outcome.content) = 1
               /\ c.outcome.content[1].type = "text"
               /\ Body(c).keys \subseteq {"success", "message", "data", "error"}
               /\ Body(c).success = c.result.success
               /\ Body(c).data = c.result.data
               /\ Body(c).error = c.result.error

\* C9: every validated invocation of a recognised tool issues exactly one HTTP
\* request and produces exactly one ToolReply; after any sequence the number of
\* HTTP requests is the number of validated invocations (no retry of a failed
\* request, no caching of a repeated invocation).
C9_OneRequestPerValidatedCall ==
    /\ HttpCount = tally.validated
    /\ tally.started <= tally.replies + tally.errors + 1
    /\ \A s \in Slots :
          LET c == calls[s]
          IN  /\ Active(c) =>
                    c.http = (IF Validated(c.name, c.args) THEN 1 ELSE 0)
              /\ (c.pc = "done" /\ Validated(c.name, c.args)) => Replied(c)
    /\ (\A s \in Slots : calls[s].pc \in {"idle", "done"}) =>
          /\ tally.replies = tally.validated
          /\ tally.started = tally.replies + tally.errors

C9_Witness ==
    /\ tally.started = 2 /\ tally.validated = 2 /\ tally.replies = 2 /\ HttpCount = 2
    /\ diag = 1
    /\ \E s \in Slots :
          LET c == calls[s]
          IN  /\ c.pc = "done" /\ c.name = "login_agent" /\ c.args = FullArgs("login_agent")
              /\ c.req.method = "POST" /\ c.http = 1 /\ Replied(c)

\* requests issued in the window of RateLimitPerMilliseconds that starts at t
InWindow(t) ==
    SumOver(sent, {u \in DOMAIN sent : t <= u /\ u < t + RateLimitPerMilliseconds})

\* C10: the server limits its request rate: with the configured limit of 100
\* requests per 60000 ms, no more than 100 HTTP requests are issued within any
\* window of 60000 ms.
C10_RateLimited ==
    /\ process.phase # "exited" =>
          clientConfig.config.rateLimit.requests = RateLimitRequests
    /\ \A t \in DOMAIN sent : InWindow(t) <= clientConfig.config.rateLimit.requests

\* C11: the timeout of the HTTP requests is the number of milliseconds the
\* NETSAPIENS_TIMEOUT environment variable holds when it is set, and 30000
\* when it is not.
C11_TimeoutFromEnv ==
    process.phase # "exited" =>
        LET t == process.env.NETSAPIENS_TIMEOUT
        IN  /\ IF t = Undefined
               THEN clientConfig.timeout = DefaultTimeout
               ELSE ToString(clientConfig.timeout) = t.s
            /\ \A s \in Slots :
                  calls[s].http > 0 => calls[s].req.timeout = clientConfig.timeout

\* C12: when the API token is absent or empty in the environment the process
\* ends at startup: no gateway is constructed, the transport is never
\* connected, no listTools or callTool is served and no HTTP request is issued.
C12_NoTokenNoServer ==
    ~Truthy(process.env.NETSAPIENS_API_TOKEN) =>
        /\ process.phase = "exited"
        /\ clientConfig = NoClient
        /\ listed = <<>>
        /\ tally.started = 0
        /\ HttpCount = 0
        /\ diag = 0
        /\ \A s \in Slots : calls[s] = Idle

C12_Witness ==
    /\ process.env.NETSAPIENS_API_TOKEN = Str("")
    /\ process.env.NETSAPIENS_API_URL # Undefined
    /\ process.phase = "exited"
    /\ clientConfig = NoClient

\* C13: test_connection issues one GET to the domains listing with the query
\* parameter limit=1; it reports success true for every 2xx response whatever
\* the body (an empty list included) and success false exactly when the
\* request fails.
C13_ProbeReportsReachability ==
    \A s \in Slots :
        LET c == calls[s]
        IN  (Active(c) /\ c.name = "test_connection")
            => /\ c.http = 1
               /\ c.req.method = "GET" /\ c.req.url = "/domains"
               /\ c.req.data = Undefined
               /\ c.req.params = [user |-> Undefined, limit |-> Num(1),
                                  start_time |-> Undefined, end_time |-> Undefined]
               /\ c.pc = "done" =>
                     /\ Replied(c)
                     /\ Body(c).success = (c.resp.settled = "resolved")
                     /\ c.resp.status \in 200..299 => Body(c).success

C13_Witness ==
    \E s \in Slots :
        LET c == calls[s]
        IN  /\ c.pc = "done" /\ c.name = "test_connection" /\ c.http = 1
            /\ c.resp.settled = "resolved" /\ c.resp.body = Arr(<<>>)
            /\ Replied(c) /\ Body(c).success

\* C14: get_user with a truthy userId and domain and a 2xx response of body B
\* replies exactly {success: true, message: "Retrieved user details for
\* <userId>", data: B} with no error field; the message names the requested
\* userId, not a field of the response.
C14_GetUserReply ==
    \A s \in Slots :
        LET c == calls[s]
        IN  (c.pc = "done" /\ c.name = "get_user" /\ c.args.present
               /\ Truthy(c.args.f["userId"]) /\ Truthy(c.args.f["domain"])
               /\ c.resp.settled = "resolved")
            => /\ Replied(c)
               /\ Len(c.outcome.content) = 1
               /\ Body(c) = [keys |-> {"success", "message", "data"},
                             success |-> TRUE,
                             message |-> Str("Retrieved user details for "
                                             \o c.args.f["userId"].s),
                             data |-> c.resp.body,
                             error |-> Undefined]

C14_Witness ==
    \E s \in Slots :
        LET c == calls[s]
        IN  /\ c.pc = "done" /\ c.name = "get_user"
            /\ c.args.f["userId"] = Str("alice") /\ c.args.f["domain"] = Str("example.com")
            /\ c.resp.status = 200 /\ c.resp.body = Obj("o1")
            /\ Replied(c)
            /\ Body(c).message = Str("Retrieved user details for alice")
            /\ Body(c).data = Obj("o1")

\* the sentence of a list operation after its count, as its handler words it
ListSentenceTail(nm, a) ==
    CASE nm = "get_cdr_records" -> " CDR records"
      [] nm = "get_domains" -> " domains"
      [] nm = "get_user_devices" ->
            " devices for user " \o a["userId"].s \o "@" \o a["domain"].s
      [] nm = "get_phone_numbers" -> " phone numbers for domain " \o a["domain"].s
      [] nm = "get_call_queues" -> " call queues for domain " \o a["domain"].s
      [] nm = "get_call_queue_agents" -> " agents for call queue " \o a["queueId"].s
      [] nm = "get_agents" -> " agents for domain " \o a["domain"].s
      [] nm = "get_auto_attendants" -> " auto attendants for domain " \o a["domain"].s
      [] nm = "get_user_answer_rules" ->
            " answer rules for user " \o a["userId"].s \o "@" \o a["domain"].s
      [] nm = "get_user_greetings" ->
            " greetings for user " \o a["userId"].s \o "@" \o a["domain"].s
      [] nm = "get_user_voicemails" ->
            " voicemails for user " \o a["userId"].s \o "@" \o a["domain"].s
      [] nm = "get_music_on_hold" -> " music on hold files for domain " \o a["domain"].s
      [] OTHER -> "?"

\* C15: for every list-returning tool the number in the message of a
\* successful reply is the number of elements of the data list of that reply
\* (0 for an empty list, 1 for a wrapped object); the message of search_users
\* is 'Found <n> users matching "<query>"', followed by ' in domain <domain>'
\* exactly when a truthy domain was supplied.
C15_MessageCountsData ==
    \A s \in Slots :
        LET c == calls[s]
            a == c.args.f
            n == ToString(Len(Body(c).data.items))
        IN  (Replied(c) /\ c.name \in ListReturningTools /\ Body(c).success)
            => /\ Body(c).data.t = "array"
               /\ c.resp.body = Arr(<<>>) => Len(Body(c).data.items) = 0
               /\ c.resp.body.t # "array" => Len(Body(c).data.items) = 1
               /\ Body(c).message =
                     IF c.name = "search_users"
                     THEN Str("Found " \o n \o " users matching \"" \o a["query"].s
                              \o "\""
                              \o (IF Truthy(a["domain"])
                                  THEN " in domain " \o a["domain"].s ELSE ""))
                     ELSE Str("Retrieved " \o n \o ListSentenceTail(c.name, a))

C15_Witness ==
    \E s \in Slots :
        LET c == calls[s]
        IN  /\ Replied(c) /\ c.name = "search_users" /\ Body(c).success
            /\ c.args.f["domain"] = Str("") /\ c.resp.body = Obj("o1")
            /\ Body(c).data = Arr(<<Obj("o1")>>)
            /\ Body(c).message = Str("Found 1 users matching \"john\"")

\* C16: with no limit argument search_users sends limit=20 and
\* get_cdr_records sends limit=100; a limit that is supplied is the value sent;
\* get_phone_numbers sends no limit when none is supplied.
C16_LimitSent ==
    \A s \in Slots :
        LET c == calls[s]
            given == c.args.f["limit"]
        IN  (Active(c) /\ c.http > 0)
            => /\ c.name = "search_users" =>
                     c.req.params.limit = (IF given = Undefined THEN Num(20) ELSE given)
               /\ c.name = "get_cdr_records" =>
                     c.req.params.limit = (IF given = Undefined THEN Num(100) ELSE given)
               /\ c.name = "get_phone_numbers" => c.req.params.limit = given

\* C17: get_cdr_records requests the listing of one user when user and domain
\* are both given, the listing of the domain when only the domain is given,
\* and the global listing when neither is given; startDate and endDate are
\* sent as start_time and end_time.
C17_CdrEndpoint ==
    \A s \in Slots :
        LET c == calls[s]
            a == c.args.f
        IN  (Active(c) /\ c.name = "get_cdr_records" /\ c.http > 0)
            => /\ c.req.method = "GET"
               /\ (Truthy(a["user"]) /\ Truthy(a["domain"])) =>
                     c.req.url = "/domains/" \o a["domain"].s \o "/users/"
                                 \o a["user"].s \o "/cdrs"
               /\ (~Truthy(a["user"]) /\ Truthy(a["domain"])) =>
                     c.req.url = "/domains/" \o a["domain"].s \o "/cdrs"
               /\ (~Truthy(a["user"]) /\ ~Truthy(a["domain"])) => c.req.url = "/cdrs"
               /\ c.req.params.start_time = a["startDate"]
               /\ c.req.params.end_time = a["endDate"]

C17_Witness ==
    \E s \in Slots :
        LET c == calls[s]
        IN  /\ Active(c) /\ c.name = "get_cdr_records" /\ c.http = 1
            /\ c.args.f["user"] = Str("bob") /\ c.args.f["domain"] = Str("example.com")
            /\ c.args.f["startDate"] = Str("2024-01-01") /\ c.args.f["endDate"] = Undefined
            /\ c.req.url = "/domains/example.com/users/bob/cdrs"
            /\ c.req.params.start_time = Str("2024-01-01")
            /\ c.req.params.end_time = Undefined

\* the read operations: every tool but the two agent state changes
ReadTools == CatalogNames \ {"login_agent", "logout_agent"}

\* C18: the 21 read operations issue GET and never POST; login_agent and
\* logout_agent issue POST with no body, to the login and the logout endpoint
\* of the given domain, queue and agent.
C18_HttpMethods ==
    /\ Cardinality(ReadTools) = 21
    /\ \A s \in Slots :
          LET c == calls[s]
              a == c.args.f
              agent == "/domains/" \o a["domain"].s \o "/callqueues/" \o a["queueId"].s
                       \o "/agents/" \o a["agentId"].s
          IN  /\ (Active(c) /\ c.http > 0 /\ c.name \in ReadTools) =>
                    (c.req.method = "GET" /\ c.req.data = Undefined)
              /\ (Active(c) /\ c.http > 0 /\ c.name = "login_agent") =>
                    /\ c.req.method = "POST" /\ c.req.data = Undefined
                    /\ c.req.url = agent \o "/login"
              /\ (Active(c) /\ c.http > 0 /\ c.name = "logout_agent") =>
                    /\ c.req.method = "POST" /\ c.req.data = Undefined
                    /\ c.req.url = agent \o "/logout"
              /\ c.req.method = "POST" => c.name \in {"login_agent", "logout_agent"}

C18_Witness ==
    \E s \in Slots :
        LET c == calls[s]
        IN  /\ c.pc = "awaiting" /\ c.name = "logout_agent" /\ c.http = 1
            /\ c.req.method = "POST" /\ c.req.data = Undefined
            /\ c.req.url = "/domains/example.com/callqueues/sales/agents/1001/logout"

\* C19: the ToolReply of a failed call carries only the message text of the
\* transport error (or the fixed fallback of the operation): two failed calls
\* of one tool with the same arguments and the same error message produce the
\* same ToolReply whatever the HTTP status and the response body of each; the
\* status and the body go to the diagnostic log only.
C19_ReplyHidesTransportDetail ==
    \A s, t \in Slots :
        LET c == calls[s]
            d == calls[t]
        IN  /\ (c.pc = "done" /\ c.resp.settled = "rejected")
               => /\ Replied(c)
                  /\ Body(c).error.t = "string"
                  /\ Truthy(c.resp.message) => Body(c).error = c.resp.message
                  /\ c.logged = <<[status |-> c.resp.status,
                                    statusText |-> c.resp.statusText,
                                    data |-> c.resp.body, url |-> c.req.url]>>
            /\ (c.pc = "done" /\ d.pc = "done"
                  /\ c.resp.settled = "rejected" /\ d.resp.settled = "rejected"
                  /\ c.name = d.name /\ c.args = d.args
                  /\ c.resp.message = d.resp.message)
               => c.outcome = d.outcome

C19_Witness ==
    LET c == calls[1]
        d == calls[2]
    IN  /\ c.pc = "done" /\ d.pc = "done"
        /\ c.name = "get_user" /\ d.name = "get_user" /\ c.args = d.args
        /\ c.resp.settled = "rejected" /\ d.resp.settled = "rejected"
        /\ c.resp.message = d.resp.message
        /\ c.resp.status = 503 /\ d.resp.status = 0 /\ c.resp.body # d.resp.body
        /\ Replied(c) /\ c.outcome = d.outcome
        /\ c.logged # d.logged

\* the outcome of an invocation that is alone: from its name, its arguments
\* and the response to its request
SoloOutcome(nm, args, resp) ==
    LET d == Dispatch(nm, args)
    IN  IF d.kind = "proceed"
        THEN HandlerReturn(nm, args.f, GatewayResult(nm, resp))
        ELSE d

\* C20: under every interleaving of concurrent invocations the outcome of each
\* is a function of its own name, its own arguments and the response to its
\* own request: it is the outcome the invocation has when it runs alone, it
\* carries no response of another invocation, and the invocations may end in
\* any order.
C20_CallsAreIndependent ==
    \A s \in Slots :
        LET c == calls[s]
        IN  /\ Active(c) =>
                  c.req = (IF c.http > 0
                           THEN GatewayRequest(c.name, c.args.f, clientConfig)
                           ELSE NoReq)
            /\ c.pc = "done" =>
                  /\ c.outcome = SoloOutcome(c.name, c.args, c.resp)
                  /\ (c.http = 0) = (c.resp = NoResp)
                  /\ (Replied(c) /\ Body(c).success /\ c.name = "get_user") =>
                        /\ Body(c).data = c.resp.body
                        /\ Body(c).message = Str("Retrieved user details for "
                                                  \o c.args.f["userId"].s)

\* the second invocation ends while the first, for another user, still waits
C20_Witness ==
    LET c == calls[1]
        d == calls[2]
    IN  /\ c.order = 1 /\ d.order = 2
        /\ c.pc = "awaiting" /\ c.name = "get_user" /\ c.args = FullArgs("get_user")
        /\ d.pc = "done" /\ d.name = "get_user" /\ d.args = OtherUser
        /\ Replied(d) /\ Body(d).success
        /\ Body(d).message = Str("Retrieved user details for carol")

\* C21: an invocation that carries no argument map is treated like one with
\* an empty map: a tool with no required input proceeds to the gateway and
\* returns a ToolReply, a tool with required inputs fails with InvalidParams,
\* and no InternalError is raised.
C21_AbsentArgsAreEmptyArgs ==
    \A s \in Slots :
        LET c == calls[s]
        IN  (Active(c) /\ c.name \in CatalogNames /\ ~c.args.present)
            => /\ ~Failed(c, "InternalError")
               /\ Required(c.name) = {} =>
                     (c.http = 1 /\ (c.pc = "done" => Replied(c)))
               /\ Required(c.name) # {} =>
                     (c.http = 0 /\ Failed(c, "InvalidParams"))

\* C22: in get_cdr_records the domain is required if a user is specified: an
\* invocation with a user and without a domain issues no request to a CDR
\* listing from which the user filter is dropped.
C22_UserNeedsDomain ==
    \A s \in Slots :
        LET c == calls[s]
            a == c.args.f
        IN  (Active(c) /\ c.name = "get_cdr_records" /\ c.args.present
               /\ Truthy(a["user"]) /\ ~Truthy(a["domain"]))
            => \/ c.http = 0
               \/ c.req.params.user = a["user"]
               \/ c.req.url = "/users/" \o a["user"].s \o "/cdrs"

\* C23: the catch of the dispatcher keeps the code of a protocol error raised
\* during dispatch (InvalidParams and MethodNotFound are raised again as they
\* are, never as InternalError) and turns every other exception into an
\* InternalError that names the tool; callTool ends in a ToolReply,
\* InvalidParams, MethodNotFound or InternalError and in nothing else.
C23_CatchAllKeepsProtocolErrors ==
    \A s \in Slots :
        LET c == calls[s]
        IN  c.pc = "done"
            => /\ \/ Replied(c)
                  \/ Failed(c, "InvalidParams")
                  \/ Failed(c, "MethodNotFound")
                  \/ Failed(c, "InternalError")
               /\ c.name \notin CatalogNames =>
                     (Failed(c, "MethodNotFound")
                        /\ c.outcome.text = "Unknown tool: " \o c.name)
               /\ (c.name \in CatalogNames /\ c.args.present /\ MissingRequired(c)) =>
                     (Failed(c, "InvalidParams")
                        /\ c.outcome.text = InvalidParamsText(c.name))
               /\ Failed(c, "InternalError") =>
                     /\ c.name \in CatalogNames /\ ~c.args.present
                     /\ c.outcome.text = "Error executing tool " \o c.name \o ": "
                                          \o TypeErrorThrown.text

C23_Witness ==
    \E s \in Slots :
        LET c == calls[s]
        IN  /\ c.pc = "done" /\ c.name = "get_phone_number" /\ ~c.args.present
            /\ Failed(c, "InternalError") /\ c.http = 0
            /\ c.outcome.text = "Error executing tool get_phone_number: "
                                 \o TypeErrorThrown.text

\* the invocations whose request is rejected in this step
RejectedNow ==
    {s \in Slots : /\ calls[s].pc = "awaiting" /\ calls'[s].pc = "settled"
                   /\ calls'[s].resp.settled = "rejected"}

\* what C24 asks of the log of one invocation
LoggedOncePerFailure(c) ==
    /\ c.pc \in {"idle", "awaiting"} => c.logged = <<>>
    /\ (c.pc \in {"settled", "done"} /\ c.resp.settled = "resolved") => c.logged = <<>>
    /\ (c.pc \in {"settled", "done"} /\ c.resp.settled = "rejected") =>
          c.logged = <<[status |-> c.resp.status, statusText |-> c.resp.statusText,
                        data |-> c.resp.body, url |-> c.req.url]>>
    /\ c.pc = "settled" => c.result = NoResult
    /\ (c.pc = "done" /\ c.resp.settled = "rejected") =>
          /\ ~c.result.threw /\ ~c.result.success
          /\ Truthy(c.resp.message) => c.result.error = c.resp.message

\* C24: every failed HTTP call writes one diagnostic entry (status, status
\* text, response body, request URL) before the gateway method returns its
\* failed OperationResult, a successful call writes none, and the interceptor
\* rejects again with the same error, so that the catch of the method runs.
C24_FailureLoggedOnceBeforeReturn ==
    /\ [](\A s \in Slots : LoggedOncePerFailure(calls[s]))
    /\ [][diag' = diag + Cardinality(RejectedNow)]_vars

C24_Witness ==
    \E s \in Slots :
        LET c == calls[s]
        IN  /\ c.pc = "settled" /\ c.name = "get_domain"
            /\ c.resp.settled = "rejected" /\ c.resp.status = 0
            /\ c.resp.message = Str("timeout of 30000ms exceeded")
            /\ Len(c.logged) = 1 /\ c.logged[1].url = "/domains/example.com"
            /\ c.result = NoResult /\ diag = 1

\* what C25 asks of an invocation whose request timed out
TimeoutIsSurfaced(c) ==
    /\ Active(c) => c.http <= 1
    /\ c.pc = "done" => (Replied(c) \/ c.outcome.kind = "error")
    /\ (c.pc = "done" /\ c.resp = TimedOut(clientConfig.timeout)) =>
          /\ Replied(c) /\ ~Body(c).success /\ ~c.result.success
          /\ c.result.error = c.resp.message
          /\ c.http = 1

\* C25: when the transport settles every request in the end (at the latest at
\* the configured timeout), every callTool invocation ends in a ToolReply or
\* a protocol error; a request that times out is surfaced at once as a failed
\* OperationResult, and the invocation issues no further request.
C25_EveryCallCompletes ==
    /\ \A s \in Slots :
          (calls[s].pc \in {"awaiting", "settled"}) ~> (calls[s].pc = "done")
    /\ [](\A s \in Slots : TimeoutIsSurfaced(calls[s]))

C25_Witness ==
    \E s \in Slots :
        LET c == calls[s]
        IN  /\ c.pc = "done" /\ c.name = "login_agent"
            /\ c.resp = TimedOut(clientConfig.timeout)
            /\ Replied(c) /\ ~Body(c).success
            /\ Body(c).error = Str("timeout of 30000ms exceeded")
            /\ c.http = 1 /\ HttpCount = tally.validated

\* C26: an optional scope argument selects the endpoint and causes no error:
\* search_users queries the users of the domain when a truthy domain is
\* supplied and the cross-domain users endpoint otherwise, and sends the
\* query as the user parameter; get_agent_statistics queries the statistics
\* of one agent when a truthy agentId is supplied and those of the domain's
\* agents otherwise.
C26_OptionalScope ==
    \A s \in Slots :
        LET c == calls[s]
            a == c.args.f
        IN  /\ (Active(c) /\ c.name = "search_users" /\ c.args.present
                  /\ Truthy(a["query"]))
               => /\ c.http = 1 /\ c.req.method = "GET"
                  /\ c.req.url = (IF Truthy(a["domain"])
                                  THEN "/domains/" \o a["domain"].s \o "/users"
                                  ELSE "/domains/~/users/~")
                  /\ c.req.params.user = a["query"]
                  /\ c.pc = "done" => Replied(c)
            /\ (Active(c) /\ c.name = "get_agent_statistics" /\ c.args.present
                  /\ Truthy(a["domain"]))
               => /\ c.http = 1 /\ c.req.method = "GET"
                  /\ c.req.url = "/domains/" \o a["domain"].s \o "/statistics/agent"
                                 \o (IF Truthy(a["agentId"])
                                     THEN "/" \o a["agentId"].s ELSE "")
                  /\ c.pc = "done" => Replied(c)

C26_Witness ==
    \E s \in Slots :
        LET c == calls[s]
        IN  /\ c.pc = "done" /\ c.name = "search_users"
            /\ c.args.f["query"] = Str("john") /\ c.args.f["domain"] = Str("")
            /\ c.req.url = "/domains/~/users/~" /\ c.req.params.user = Str("john")
            /\ Replied(c) /\ Body(c).success

\* C27: in every ToolReply the error is present exactly when success is
\* false: a reply with success true carries no error, a reply with success
\* false carries a non-empty error, and the data of a list-returning tool is
\* a list, never absent, in both.
C27_ErrorIffFailure ==
    \A s \in Slots :
        LET c == calls[s]
        IN  Replied(c)
            => /\ ("error" \in Body(c).keys) = ~Body(c).success
               /\ Body(c).success => Body(c).error = Undefined
               /\ ~Body(c).success =>
                     (Body(c).error.t = "string" /\ Body(c).error.s # "")
               /\ c.name \in ListReturningTools =>
                     ("data" \in Body(c).keys /\ Body(c).data.t = "array")

C27_Witness ==
    \E s \in Slots :
        LET c == calls[s]
        IN  /\ Replied(c) /\ c.name = "get_agents" /\ ~Body(c).success
            /\ c.resp.message = Str("")
            /\ Body(c).error = Str("Failed to get agents")
            /\ Body(c).data = Arr(<<>>)
            /\ Body(c).keys = {"success", "message", "data", "error"}

\* the words a failure message opens with
FailureOpenings == {FailurePrefix(nm) : nm \in CatalogNames}

\* C28: after a failed remote call the message of the reply contains the
\* cause, the string of the error field, for every tool but login_agent,
\* logout_agent and test_connection, whose failure messages are the fixed
\* 'Failed to login agent', 'Failed to logout agent' and 'Connection failed';
\* on success these three report the message the gateway supplies.
C28_FailureMessageNamesCause ==
    \A s \in Slots :
        LET c == calls[s]
            fixed == {"login_agent", "logout_agent", "test_connection"}
        IN  /\ (Replied(c) /\ ~Body(c).success /\ c.name \notin fixed) =>
                  \E lead \in FailureOpenings :
                      Body(c).message = Str(lead \o ": " \o Body(c).error.s)
            /\ (Replied(c) /\ ~Body(c).success /\ c.name \in fixed) =>
                  Body(c).message =
                      Str(CASE c.name = "login_agent" -> "Failed to login agent"
                            [] c.name = "logout_agent" -> "Failed to logout agent"
                            [] OTHER -> "Connection failed")
            /\ (Replied(c) /\ Body(c).success /\ c.name \in fixed) =>
                  /\ Body(c).message = c.result.message
                  /\ Body(c).message =
                        Str(CASE c.name = "login_agent" -> "Agent logged in successfully"
                              [] c.name = "logout_agent" -> "Agent logged out successfully"
                              [] OTHER -> "Connection successful")

C28_Witness ==
    \E s \in Slots :
        LET c == calls[s]
        IN  /\ Replied(c) /\ c.name = "get_user_voicemails" /\ ~Body(c).success
            /\ Body(c).error = Str("Request failed with status code 404")
            /\ Body(c).message =
                  Str("Failed to get user voicemails: Request failed with status code 404")

\* C29: a supplied limit of 0 is treated differently by the two tools with a
\* default: get_cdr_records replaces every falsy limit (0, null) by 100 before
\* it sends it, search_users forwards a supplied 0 unchanged, and only an
\* absent limit makes search_users send its default 20.
C29_FalsyLimit ==
    \A s \in Slots :
        LET c == calls[s]
            given == c.args.f["limit"]
        IN  (Active(c) /\ c.http > 0)
            => /\ (c.name = "get_cdr_records" /\ given \in {Num(0), Null, Undefined}) =>
                     c.req.params.limit = Num(100)
               /\ (c.name = "search_users" /\ given = Num(0)) =>
                     c.req.params.limit = Num(0)
               /\ (c.name = "search_users" /\ given # Num(20)) =>
                     ((c.req.params.limit = Num(20)) = (given = Undefined))

C29_Witness ==
    /\ \E s \in Slots :
          LET c == calls[s]
          IN  /\ Active(c) /\ c.http = 1 /\ c.name = "get_cdr_records"
              /\ c.args.f["limit"] = Num(0) /\ c.req.params.limit = Num(100)
              /\ c.args.f["domain"] = Undefined /\ c.req.url = "/cdrs"

\* the gateway of a second run that differs from this one in the token only
TwinClient ==
    NewClient(GetConfig([process.env EXCEPT !.NETSAPIENS_API_TOKEN = Str("token-Z")]))

\* the invocation c in the second run: the same name and arguments, the same
\* transport outcome
Twin(c) ==
    LET rq == IF c.http > 0 THEN GatewayRequest(c.name, c.args.f, TwinClient) ELSE NoReq
    IN  [req |-> rq,
         logged |-> IF c.resp.settled = "rejected" THEN <<DiagEntry(c.resp, rq)>> ELSE <<>>,
         outcome |-> SoloOutcome(c.name, c.args, c.resp)]

\* C30: the API token is the bearer Authorization header of every outbound
\* request and influences nothing else: a second run that differs in the
\* token only and receives the same transport outcomes produces the same
\* ToolReplies, the same protocol errors and the same diagnostic entries, which
\* hold status, status text, body and URL and no request header.
C30_TokenOnlyInHeader ==
    \A s \in Slots :
        LET c == calls[s]
            t == Twin(c)
        IN  /\ (Active(c) /\ c.http > 0) =>
                  /\ c.req.headers =
                        [Authorization |-> "Bearer " \o process.env.NETSAPIENS_API_TOKEN.s,
                         ContentType |-> "application/json",
                         Accept |-> "application/json",
                         UserAgent |-> "OITVOIP-MCP-Server/1.0.0"]
                  /\ t.req.headers.Authorization = "Bearer token-Z"
                  /\ [c.req EXCEPT !.headers.Authorization = ""]
                        = [t.req EXCEPT !.headers.Authorization = ""]
            /\ c.pc \in {"settled", "done"} => c.logged = t.logged
            /\ c.pc = "done" => c.outcome = t.outcome

C30_Witness ==
    \E s \in Slots :
        LET c == calls[s]
        IN  /\ c.pc = "done" /\ c.name = "get_billing" /\ c.resp.status = 404
            /\ c.req.headers.Authorization = "Bearer token-B"
            /\ Twin(c).req.headers.Authorization = "Bearer token-Z"
            /\ Len(c.logged) = 1 /\ c.logged = Twin(c).logged
            /\ Replied(c) /\ c.outcome = Twin(c).outcome

====
